---- MODULE Spec2Model ----
(***************************************************************************)
(* A model of cpx (src/src/main.rs, src/src/ssh.rs): the run of main, the  *)
(* local and the SSH handler, SshTransfer::new, and the transfer tasks     *)
(* that a semaphore admits.                                                *)
(***************************************************************************)
EXTENDS Naturals, Integers, Sequences, FiniteSets, TLC

\* ----------------------------------------------------------------- bounds
\* The most files the walks of a run meet; they are numbered 1..MaxFiles in
\* the order the scanner meets them.
MaxFiles == 3
\* The values of --jobs the model runs: 0..MaxJobs.
MaxJobs == 2
\* The longest source file of the codec's runs, in bytes.
MaxData == 33
\* send_file's read buffer, `vec![0; 8192]`, scaled down with the model's files.
ChunkSize == 32
\* BufWriter's default capacity, 8 KiB as well, scaled down alike.
BufCap == 32

Files == 1..MaxFiles

\* ------------------------------------------------------------ destinations
\* A destination string is a sequence of characters.
Dests ==
    { <<"u", "@", "h", ":", "r">>,      \* user@host:path
      <<"h", ":", "r">>,                \* host:path, no user
      <<"d">>,                          \* a bare local path
      <<"a", ":", "u", "@", "h", ":", "r">> }  \* the first ':' before the first '@'

\* str::find: the index of the first occurrence of c (1-based), 0 for None.
Find(s, c) ==
    IF \E i \in 1..Len(s) : s[i] = c
    THEN CHOOSE i \in 1..Len(s) : s[i] = c /\ \A j \in 1..(i - 1) : s[j] # c
    ELSE 0

\* parse_ssh_destination: Ok((ssh_part, path_part)) when the first ':' comes
\* after the first '@', an error otherwise.
parse_ssh_destination(destination) ==
    LET at_pos == Find(destination, "@")
        colon_pos == Find(destination, ":")
    IN  IF at_pos # 0 /\ colon_pos # 0 /\ colon_pos > at_pos
        THEN [ok |-> TRUE,
              ssh_part |-> SubSeq(destination, 1, colon_pos - 1),
              path_part |-> SubSeq(destination, colon_pos + 1, Len(destination))]
        ELSE [ok |-> FALSE, ssh_part |-> <<>>, path_part |-> <<>>]

\* The number of occurrences of c in s.
RECURSIVE Count(_, _)
Count(s, c) ==
    IF s = <<>> THEN 0
    ELSE (IF Head(s) = c THEN 1 ELSE 0) + Count(Tail(s), c)

\* SshTransfer::new's split of user@host: (user, host) when the split on '@'
\* gives two parts, else the invoking user and the whole string as the host.
UserHost(ssh_dest) ==
    IF Count(ssh_dest, "@") = 1
    THEN [user |-> SubSeq(ssh_dest, 1, Find(ssh_dest, "@") - 1),
          host |-> SubSeq(ssh_dest, Find(ssh_dest, "@") + 1, Len(ssh_dest))]
    ELSE [user |-> <<"whoami">>, host |-> ssh_dest]

\* ------------------------------------------------------------------- paths
\* A path is a sequence of characters, '/' between its components.
\* The name of the k-th file of a directory.
DigitChar == <<"1", "2", "3", "4", "5", "6", "7", "8", "9">>

Path(dir, k) == dir \o <<"/", DigitChar[k]>>

DirPA == <<"/", "p", "/", "a">>
DirQA == <<"/", "q", "/", "a">>
DirQ == <<"/", "q">>

\* The regular files of the file system, in the order a walk meets them:
\* /p/a/1 .. /p/a/MaxFiles and /q/a/1.
Tree == [k \in 1..MaxFiles |-> Path(DirPA, k)] \o <<Path(DirQA, 1)>>

\* What a source argument may name: a directory, a file, a directory right
\* under the root.
Roots == {DirPA, Path(DirPA, 1), DirQA, Path(DirQA, 1), DirQ}

\* The last '/' of a path, 0 when it has none.
LastSlash(p) ==
    IF \E i \in 1..Len(p) : p[i] = "/"
    THEN CHOOSE i \in 1..Len(p) : p[i] = "/" /\ \A j \in (i + 1)..Len(p) : p[j] # "/"
    ELSE 0

\* Path::parent: the path without its last component; None for the root and
\* for the empty path.
Parent(p) ==
    IF p = <<>> \/ p = <<"/">> THEN [some |-> FALSE, path |-> <<>>]
    ELSE IF LastSlash(p) = 1 THEN [some |-> TRUE, path |-> <<"/">>]
    ELSE [some |-> TRUE, path |-> SubSeq(p, 1, LastSlash(p) - 1)]

\* `p.parent().unwrap_or(p)`.
ParentOr(p) == IF Parent(p).some THEN Parent(p).path ELSE p

\* Path::starts_with, by whole components.
StartsWith(p, base) ==
    /\ Len(base) <= Len(p)
    /\ SubSeq(p, 1, Len(base)) = base
    /\ \/ Len(base) = Len(p)
       \/ base = <<>>
       \/ base[Len(base)] = "/"
       \/ p[Len(base) + 1] = "/"

\* Path::strip_prefix: the rest of the path, relative, or an error.
strip_prefix(p, base) ==
    IF ~StartsWith(p, base) THEN [ok |-> FALSE, path |-> <<>>]
    ELSE LET rest == SubSeq(p, Len(base) + 1, Len(p))
         IN  [ok |-> TRUE,
              path |-> IF rest # <<>> /\ rest[1] = "/" THEN Tail(rest) ELSE rest]

\* Path::join: an absolute second path replaces the first.
Join(base, rel) ==
    IF rel # <<>> /\ rel[1] = "/" THEN rel
    ELSE IF base = <<>> \/ base[Len(base)] = "/" THEN base \o rel
    ELSE base \o <<"/">> \o rel

\* WalkDir::new(src) filtered to regular files: the files at or under src.
WalkDir(src) == SelectSeq(Tree, LAMBDA f : StartsWith(f, src))

\* What collect_metadata's two loops meet, in order: each file of each source's
\* walk, with the path it gets in the manifest,
\* `path.strip_prefix(src.parent().unwrap_or(src))`.
RECURSIVE Entries(_)
Entries(sources) ==
    IF sources = <<>> THEN <<>>
    ELSE LET src == Head(sources)
             walk == WalkDir(src)
         IN  [i \in 1..Len(walk) |->
                 [abs |-> walk[i],
                  strip |-> strip_prefix(walk[i], ParentOr(src))]]
             \o Entries(Tail(sources))

\* The source lists of the runs: one or two roots, the walk no longer than
\* MaxFiles.
SourceLists ==
    {s \in {<<r>> : r \in Roots} \cup {<<r1, r2>> : r1 \in Roots, r2 \in Roots} :
        Len(Entries(s)) <= MaxFiles}

\* ---------------------------------------------------------------- scanning
\* What the scanner meets at a file: it reads it ("ok"), the walk or is_file
\* leaves it out ("skip"), or metadata, open or read_exact fails.
ScanConds == {"ok", "skip", "stat_err", "open_err", "read_err"}

\* collect_metadata's loop over what the walks meet, from the i-th on: the
\* entries pushed so far, each named by its place in the walks, and the first
\* error ends it.
RECURSIVE ScanFrom(_, _, _, _)
ScanFrom(entries, conds, i, files) ==
    IF i > Len(entries) THEN [ok |-> TRUE, files |-> files]
    ELSE IF conds[i] = "skip" THEN ScanFrom(entries, conds, i + 1, files)
    ELSE IF conds[i] = "ok" /\ entries[i].strip.ok
    THEN ScanFrom(entries, conds, i + 1, Append(files, i))
    ELSE [ok |-> FALSE, files |-> files]

collect_metadata(entries, conds) == ScanFrom(entries, conds, 1, <<>>)

\* ------------------------------------------------------------------ bytes
\* A byte string is a sequence of numbers 0..255; characters are their codes.
Min(a, b) == IF a < b THEN a ELSE b

\* The index of the last occurrence of c in s, 0 when there is none.
LastIndexOf(s, c) ==
    IF \E i \in 1..Len(s) : s[i] = c
    THEN CHOOSE i \in 1..Len(s) : s[i] = c /\ \A j \in (i + 1)..Len(s) : s[j] # c
    ELSE 0

\* `(len as u32).to_be_bytes()`.
BE32(n) ==
    <<(n \div 16777216) % 256, (n \div 65536) % 256, (n \div 256) % 256,
      n % 256>>

\* u32::from_be_bytes.
FromBE32(b) == ((b[1] * 256 + b[2]) * 256 + b[3]) * 256 + b[4]

\* serde_json's decimal digits of an unsigned number, as character codes.
RECURSIVE Digits(_)
Digits(n) ==
    IF n < 10 THEN <<48 + n>> ELSE Digits(n \div 10) \o <<48 + (n % 10)>>

\* ----------------------------------------------------------- should_compress
\* The paths of the codec's runs: "a.md", "A.MD", "b.o", "c".
Paths == { <<97, 46, 109, 100>>, <<65, 46, 77, 68>>, <<98, 46, 111>>, <<99>> }

\* The allow-list: txt log csv json xml html css js yaml yml md toml.
CompressibleExts ==
    { <<116, 120, 116>>, <<108, 111, 103>>, <<99, 115, 118>>,
      <<106, 115, 111, 110>>, <<120, 109, 108>>, <<104, 116, 109, 108>>,
      <<99, 115, 115>>, <<106, 115>>, <<121, 97, 109, 108>>,
      <<121, 109, 108>>, <<109, 100>>, <<116, 111, 109, 108>> }

\* Path::extension: what follows the file name's last '.', nothing when the
\* name has no '.' or only a leading one.
Extension(path) ==
    LET name == SubSeq(path, LastIndexOf(path, 47) + 1, Len(path))
        dot == LastIndexOf(name, 46)
    IN  IF dot <= 1 THEN <<>> ELSE SubSeq(name, dot + 1, Len(name))

\* str::to_lowercase on ASCII.
ToLower(s) == [i \in 1..Len(s) |-> IF s[i] \in 65..90 THEN s[i] + 32 ELSE s[i]]

should_compress(path) == ToLower(Extension(path)) \in CompressibleExts

\* ------------------------------------------------------------- the frame
\* serde_json::to_vec(&DataHeader): '{' path ',' size ',' mtime ',' t|f '}',
\* the JSON object without its keys and quotes.
HeaderBytes(h) ==
    <<123>> \o h.path \o <<44>> \o Digits(h.size) \o <<44>> \o Digits(h.mtime)
        \o <<44, IF h.compressed THEN 116 ELSE 102, 125>>

\* serde_json::to_vec(&DataFooter): '{' crc32 ',' sha256 '}'.
FooterBytes(f) ==
    <<123>> \o Digits(f.crc32) \o <<44>> \o Digits(f.sha256) \o <<125>>

\* crc32fast::Hasher::update: a running checksum folded over the bytes.
RECURSIVE CrcUpdate(_, _)
CrcUpdate(acc, bytes) ==
    IF bytes = <<>> THEN acc
    ELSE CrcUpdate((acc * 2 + Head(bytes) + 1) % 11, Tail(bytes))

\* Sha256::update, a second running digest.
RECURSIVE ShaUpdate(_, _)
ShaUpdate(acc, bytes) ==
    IF bytes = <<>> THEN acc
    ELSE ShaUpdate((acc * 3 + Head(bytes) + 2) % 13, Tail(bytes))

\* The first byte of a zstd frame's magic number, 0x28.
ZMagic == 40

\* zstd::Encoder over one chunk: a frame of its own, the magic, the block's
\* length, the transformed bytes.
ZstdEncode(data) ==
    <<ZMagic, Len(data)>> \o [i \in 1..Len(data) |-> (data[i] + 1) % 256]

\* ---------------------------------------------------------------- BufWriter
\* A BufWriter<File>: its buffer, the bytes that reached the file, and whether
\* the last call returned Ok. io says what the disk does during a call: "ok",
\* "flush_err" (the write of the buffer fails), "write_err" (a direct write
\* fails).
NewWriter == [buf |-> <<>>, file |-> <<>>, ok |-> TRUE]

\* BufWriter::flush_buf.
flush_buf(w, io) ==
    IF w.buf = <<>> THEN [w EXCEPT !.ok = TRUE]
    ELSE IF io = "flush_err" THEN [w EXCEPT !.ok = FALSE]
    ELSE [buf |-> <<>>, file |-> w.file \o w.buf, ok |-> TRUE]

\* BufWriter::write_all: into the buffer when the bytes fit with room to
\* spare; else the buffer is flushed if they do not fit, and they go straight
\* to the file if they fill a whole buffer.
write_all(w, bytes, io) ==
    IF Len(bytes) < BufCap - Len(w.buf)
    THEN [w EXCEPT !.buf = @ \o bytes, !.ok = TRUE]
    ELSE LET f == IF Len(bytes) > BufCap - Len(w.buf) THEN flush_buf(w, io)
                  ELSE [w EXCEPT !.ok = TRUE]
         IN  IF ~f.ok THEN f
             ELSE IF Len(bytes) >= BufCap
             THEN IF io = "write_err" THEN [f EXCEPT !.ok = FALSE]
                  ELSE [f EXCEPT !.file = @ \o bytes]
             ELSE [f EXCEPT !.buf = @ \o bytes]

\* Drop for BufWriter: `let _r = self.flush_buf();`, the result dropped with
\* whatever is still in the buffer.
drop_writer(w, io) ==
    LET f == flush_buf(w, io)
    IN  [buf |-> <<>>, file |-> f.file, ok |-> TRUE]

IOs == {"ok", "flush_err", "write_err"}

\* The source files of the codec's runs: every length up to MaxData, in two
\* byte patterns.
Source(n, k) == [i \in 1..n |-> (i * (k + 1) + k) % 3]
Sources == {Source(n, k) : n \in 0..MaxData, k \in 0..1}

\* ------------------------------------------------------------------- state
VARIABLES
    args,          \* the parsed command line: [source, destination, compress,
                   \* jobs, ssh]
    mpc,           \* where main (and the handler it awaits) is
    backend,       \* the handler main entered: "none", "local", "ssh"
    result,        \* what main returned: "none", "Ok", or an error
    conn,          \* the (user, host) SshTransfer::new connects as, <<>> before
    session,       \* the ssh2 session: [connected, authenticated], and whether
                   \* handle_ssh_transfer holds it
    auth_success,  \* SshTransfer::new's local, while the call lasts
    attempts,      \* the userauth_* calls the call has made, in order, each
                   \* with whether it succeeded
    walked,        \* what the scanner's walks met, in order: each file and its
                   \* path stripped of the source's parent
    scan,          \* what the scanner met at each file
    manifest,      \* the manifest collect_metadata returned
    ldirs,         \* the entries whose local parent directory step 2 created
    rdirs,         \* the entries whose remote parent directory step 2 created
    handles,       \* the tasks spawned, in spawn order
    joined,        \* how many handles the wait loop has awaited
    permits,       \* the semaphore's free permits
    tstate,        \* per task: "none", "queued", "active", "succeeded", "failed"
    terr,          \* per task: the error that ended it, "none" otherwise
    pbmsg,         \* per task: the progress bar's message
    topen          \* per task: whether it called File::open on its source
                   \* path, whether it has its destination file open for
                   \* writing, whether it sent its file over SSH

\* One call of send_file.
VARIABLES
    spc,            \* where send_file is
    file_info,      \* its FileInfo: [path, size, mtime, compressed]
    src,            \* the source file's bytes as send_file reads them
    rpos,           \* how many of them it has read
    output,         \* the BufWriter over the destination file
    crc32_hasher,   \* the running CRC32
    sha256_hasher,  \* the running SHA-256
    written,        \* the local `written`
    pb,             \* the progress bar: [position, message]
    payload,        \* the payload bytes handed to output.write_all so far
    send_result     \* what send_file returned: "none", "Ok", or an error

codecVars == <<spc, file_info, src, rpos, output, crc32_hasher, sha256_hasher,
               written, pb, payload, send_result>>

schedVars == <<args, mpc, backend, result, conn, session, auth_success, attempts,
               walked, scan, manifest, ldirs, rdirs, handles, joined, permits, tstate,
               terr, pbmsg, topen>>

vars == <<schedVars, codecVars>>

sshVars == <<conn, session, auth_success, attempts>>
scanVars == <<walked, scan, manifest>>
dirVars == <<ldirs, rdirs>>
taskVars == <<handles, joined, permits, tstate, terr, pbmsg, topen>>

Terminal == {"succeeded", "failed"}

NoSession == [connected |-> FALSE, authenticated |-> FALSE, held |-> FALSE]

NoOpen == [opened |-> FALSE, writing |-> FALSE, sent |-> FALSE]

\* No send_file call is being followed.
CodecIdle ==
    /\ spc = "idle"
    /\ file_info = [path |-> <<>>, size |-> 0, mtime |-> 0, compressed |-> FALSE]
    /\ src = <<>>
    /\ rpos = 0
    /\ output = NewWriter
    /\ crc32_hasher = 0
    /\ sha256_hasher = 0
    /\ written = 0
    /\ pb = [position |-> 0, message |-> "none"]
    /\ payload = <<>>
    /\ send_result = "none"

\* The state of the run before main's first step, for the arguments a.
RunStart(a) ==
    /\ args = a
    /\ mpc = "main"
    /\ backend = "none"
    /\ result = "none"
    /\ conn = <<>>
    /\ session = NoSession
    /\ auth_success = FALSE
    /\ attempts = <<>>
    /\ walked = <<>>
    /\ scan = [f \in Files |-> "none"]
    /\ manifest = <<>>
    /\ ldirs = {}
    /\ rdirs = {}
    /\ handles = <<>>
    /\ joined = 0
    /\ permits = 0
    /\ tstate = [f \in Files |-> "none"]
    /\ terr = [f \in Files |-> "none"]
    /\ pbmsg = [f \in Files |-> "none"]
    /\ topen = [f \in Files |-> NoOpen]

\* The runs of one source directory, for every destination, every --jobs and
\* both values of --ssh. No step of the handlers reads --compress; the runs of
\* send_file below take both of its values.
Init ==
    /\ \E a \in [source : {<<DirPA>>}, destination : Dests, compress : {FALSE},
                  jobs : 0..MaxJobs, ssh : BOOLEAN] : RunStart(a)
    /\ CodecIdle

\* -------------------------------------------------------------------- main
\* main: the --ssh flag alone chooses the handler.
SelectBackend(a) == IF a.ssh THEN "ssh" ELSE "local"

main ==
    /\ mpc = "main"
    /\ backend' = SelectBackend(args)
    /\ mpc' = IF backend' = "ssh" THEN "parse" ELSE "scan"
    /\ UNCHANGED <<args, codecVars, result, sshVars, scanVars, dirVars, taskVars>>

\* A handler's error return, which main's `?` passes on.
Abort(err) ==
    /\ mpc' = "returned"
    /\ result' = err

\* handle_ssh_transfer: parse_ssh_destination(&args.destination)?
ParseDestination ==
    /\ mpc = "parse"
    /\ IF parse_ssh_destination(args.destination).ok
       THEN mpc' = "connect" /\ result' = result
       ELSE Abort("InvalidDestination")
    /\ UNCHANGED <<args, codecVars, backend, sshVars, scanVars, dirVars, taskVars>>

\* ------------------------------------------------------- SshTransfer::new
\* TcpStream::connect, Session::new and handshake, each ended by `?`.
SshConnect ==
    /\ mpc = "connect"
    /\ conn' = UserHost(parse_ssh_destination(args.destination).ssh_part)
    /\ \E o \in {"ok", "tcp_err", "session_err", "handshake_err"} :
          IF o = "ok"
          THEN /\ session' = [session EXCEPT !.connected = TRUE]
               /\ mpc' = "agent"
               /\ result' = result
          ELSE /\ session' = session
               /\ Abort("ConnectError")
    /\ UNCHANGED <<args, codecVars, backend, auth_success, attempts, scanVars, dirVars,
                   taskVars>>

\* One session.userauth_*(..) call and the `if ..is_ok() { auth_success = true }`
\* around it.
Userauth(method, ok) ==
    /\ attempts' = Append(attempts, [method |-> method, ok |-> ok])
    /\ auth_success' = (auth_success \/ ok)
    /\ session' = [session EXCEPT !.authenticated = @ \/ ok]

NoUserauth == UNCHANGED <<attempts, auth_success, session>>

\* 1. ssh-agent, always tried.
AuthAgent ==
    /\ mpc = "agent"
    /\ \E ok \in BOOLEAN : Userauth("agent", ok)
    /\ mpc' = "pubkey"
    /\ UNCHANGED <<args, codecVars, backend, result, conn, scanVars, dirVars, taskVars>>

\* 2. the default key pair, when HOME (or USERPROFILE) is set and both key
\* files are there.
AuthPubkey ==
    /\ mpc = "pubkey"
    /\ IF ~auth_success
       THEN \E home \in BOOLEAN, keys \in BOOLEAN, ok \in BOOLEAN :
               IF home /\ keys THEN Userauth("pubkey", ok) ELSE NoUserauth
       ELSE NoUserauth
    /\ mpc' = "password"
    /\ UNCHANGED <<args, codecVars, backend, result, conn, scanVars, dirVars, taskVars>>

\* 3. the password of the SSH_PASSWORD environment variable, when it is set.
AuthPassword ==
    /\ mpc = "password"
    /\ IF ~auth_success
       THEN \E set \in BOOLEAN, ok \in BOOLEAN :
               IF set THEN Userauth("password_env", ok) ELSE NoUserauth
       ELSE NoUserauth
    /\ mpc' = "prompt"
    /\ UNCHANGED <<args, codecVars, backend, result, conn, scanVars, dirVars, taskVars>>

\* AuthPrompt without its `if !auth_success` guard.
AuthPromptUnguarded ==
    /\ mpc = "prompt"
    /\ \E io \in {"ok", "flush_err", "read_err"}, ok \in BOOLEAN :
          IF io = "ok"
          THEN Userauth("prompt", ok) /\ mpc' = "authcheck" /\ result' = result
          ELSE NoUserauth /\ Abort("IoError")
    /\ UNCHANGED <<args, codecVars, backend, conn, scanVars, dirVars, taskVars>>

\* 3, second half: the prompt; stdout's flush and read_password end new by `?`.
AuthPrompt ==
    /\ mpc = "prompt"
    /\ IF ~auth_success
       THEN \E io \in {"ok", "flush_err", "read_err"}, ok \in BOOLEAN :
               IF io = "ok"
               THEN Userauth("prompt", ok) /\ mpc' = "authcheck" /\ result' = result
               ELSE NoUserauth /\ Abort("IoError")
       ELSE NoUserauth /\ mpc' = "authcheck" /\ result' = result
    /\ UNCHANGED <<args, codecVars, backend, conn, scanVars, dirVars, taskVars>>

\* SshNewReturn without its `if !auth_success` check.
SshNewReturnUnchecked ==
    /\ mpc = "authcheck"
    /\ session' = [session EXCEPT !.held = TRUE]
    /\ auth_success' = FALSE
    /\ attempts' = <<>>
    /\ mpc' = "scan"
    /\ UNCHANGED <<args, codecVars, backend, result, conn, scanVars, dirVars,
                   taskVars>>

\* `if !auth_success { return Err(..) }`, else Ok(SshTransfer { session, .. }):
\* the caller holds the session, and the call's locals are gone.
SshNewReturn ==
    /\ mpc = "authcheck"
    /\ IF ~auth_success
       THEN /\ Abort("AuthError")
            /\ UNCHANGED <<session, auth_success, attempts>>
       ELSE /\ session' = [session EXCEPT !.held = TRUE]
            /\ auth_success' = FALSE
            /\ attempts' = <<>>
            /\ mpc' = "scan"
            /\ result' = result
    /\ UNCHANGED <<args, codecVars, backend, conn, scanVars, dirVars, taskVars>>

\* ------------------------------------------------------ the two handlers
\* Step 1 of both handlers: collect_metadata(&args.source).await?
CollectMetadata ==
    /\ mpc = "scan"
    /\ walked' = Entries(args.source)
    /\ \E conds \in [Files -> ScanConds \cup {"none"}] :
          /\ \A f \in Files : conds[f] = "none" <=> f > Len(walked')
          /\ scan' = conds
          /\ IF collect_metadata(walked', conds).ok
             THEN /\ manifest' = collect_metadata(walked', conds).files
                  /\ mpc' = "mkdir"
                  /\ result' = result
             ELSE /\ manifest' = manifest
                  /\ Abort("ScanError")
    /\ UNCHANGED <<args, codecVars, backend, sshVars, dirVars, taskVars>>

\* Step 2 of handle_local_transfer: fs::create_dir_all(parent)? per entry; the
\* first k succeed.
CreateDestStructure ==
    /\ mpc = "mkdir"
    /\ backend = "local"
    /\ \E k \in 0..Len(manifest) :
          /\ ldirs' = {manifest[i] : i \in 1..k}
          /\ IF k = Len(manifest)
             THEN mpc' = "start" /\ result' = result
             ELSE Abort("IoError")
    /\ UNCHANGED <<args, codecVars, backend, sshVars, scanVars, rdirs, taskVars>>

\* Step 2 of handle_ssh_transfer: `let _ = ssh_transfer.create_remote_dir(..)`
\* per entry, its result dropped.
CreateRemoteStructure ==
    /\ mpc = "mkdir"
    /\ backend = "ssh"
    /\ \E made \in SUBSET {manifest[i] : i \in 1..Len(manifest)} :
          rdirs' = made
    /\ mpc' = "start"
    /\ UNCHANGED <<args, codecVars, backend, result, sshVars, scanVars, ldirs, taskVars>>

\* Step 3: Semaphore::new(args.jobs) and the empty handles vector.
StartTransfer ==
    /\ mpc = "start"
    /\ permits' = args.jobs
    /\ mpc' = IF manifest = <<>> THEN "join" ELSE "spawn"
    /\ UNCHANGED <<args, codecVars, backend, result, sshVars, scanVars, dirVars, handles,
                   joined, tstate, terr, pbmsg, topen>>

\* Spawn that takes the manifest's entries in any order.
SpawnAnyOrder ==
    /\ mpc = "spawn"
    /\ \E t \in {manifest[i] : i \in 1..Len(manifest)} :
          /\ tstate[t] = "none"
          /\ handles' = Append(handles, t)
          /\ tstate' = [tstate EXCEPT ![t] = "queued"]
          /\ pbmsg' = [pbmsg EXCEPT ![t] = "path"]
          /\ mpc' = IF Len(handles') = Len(manifest) THEN "join" ELSE "spawn"
    /\ UNCHANGED <<args, codecVars, backend, result, sshVars, scanVars, dirVars, joined,
                   permits, terr, topen>>

\* One turn of `for file in manifest.files`: the progress bar, tokio::spawn,
\* handles.push(h).
Spawn ==
    /\ mpc = "spawn"
    /\ LET t == manifest[Len(handles) + 1]
       IN  /\ handles' = Append(handles, t)
           /\ tstate' = [tstate EXCEPT ![t] = "queued"]
           /\ pbmsg' = [pbmsg EXCEPT ![t] = "path"]
           /\ mpc' = IF Len(handles') = Len(manifest) THEN "join" ELSE "spawn"
    /\ UNCHANGED <<args, codecVars, backend, result, sshVars, scanVars, dirVars, joined,
                   permits, terr, topen>>

\* Acquire that does not wait for a free permit.
AcquireUngated(t) ==
    /\ tstate[t] = "queued"
    /\ permits' = IF permits > 0 THEN permits - 1 ELSE 0
    /\ tstate' = [tstate EXCEPT ![t] = "active"]
    /\ UNCHANGED <<args, codecVars, mpc, backend, result, sshVars, scanVars, dirVars,
                   handles, joined, terr, pbmsg, topen>>

\* A task's `sem.acquire().await`: it goes on once it holds a permit.
Acquire(t) ==
    /\ tstate[t] = "queued"
    /\ permits > 0
    /\ permits' = permits - 1
    /\ tstate' = [tstate EXCEPT ![t] = "active"]
    /\ UNCHANGED <<args, codecVars, mpc, backend, result, sshVars, scanVars, dirVars,
                   handles, joined, terr, pbmsg, topen>>

\* Finish whose error closes the semaphore and so ends the queued siblings.
FinishCancelling(t, err, msg) ==
    /\ tstate' = [u \in Files |->
                    IF u = t THEN (IF err = "none" THEN "succeeded" ELSE "failed")
                    ELSE IF err # "none" /\ tstate[u] = "queued" THEN "failed"
                    ELSE tstate[u]]
    /\ terr' = [terr EXCEPT ![t] = err]
    /\ pbmsg' = [pbmsg EXCEPT ![t] = msg]
    /\ permits' = permits + 1

\* Finish that keeps the permit when the task ends with an error.
FinishKeepingPermit(t, err, msg) ==
    /\ tstate' = [tstate EXCEPT ![t] = IF err = "none" THEN "succeeded" ELSE "failed"]
    /\ terr' = [terr EXCEPT ![t] = err]
    /\ pbmsg' = [pbmsg EXCEPT ![t] = msg]
    /\ permits' = IF err = "none" THEN permits + 1 ELSE permits

\* The end of a task: its state, the error that ended it, the progress bar's
\* message, and _permit dropped.
Finish(t, err, msg) ==
    /\ tstate' = [tstate EXCEPT ![t] = IF err = "none" THEN "succeeded" ELSE "failed"]
    /\ terr' = [terr EXCEPT ![t] = err]
    /\ pbmsg' = [pbmsg EXCEPT ![t] = msg]
    /\ permits' = permits + 1

\* The path an entry has in the manifest, FileInfo.path, and the file the
\* scanner statted and read for it.
EntryPath(t) == walked[t].strip.path
Scanned(t) == walked[t].abs

IsFile(p) == \E i \in 1..Len(Tree) : Tree[i] = p

\* Both handlers: `Path::new(&args.source[0]).parent().unwrap_or(&args.source[0])`.
src_root == ParentOr(args.source[1])

\* handle_local_transfer: `Path::new(&args.destination)`.
dest_root == args.destination

\* send_file's src_path and dest_path; the SSH handler's src_path is the same.
SrcPath(t) == Join(src_root, EntryPath(t))
DestPath(t) == Join(dest_root, EntryPath(t))

\* The head of the local task's send_file: create_dir_all(dest's parent)?,
\* File::open(&src_path)?, File::create(&dest_path)?. The open fails when
\* src_path names no file; an error ends the task, `let _ =` dropping it.
LocalOpen(t) ==
    /\ backend = "local"
    /\ tstate[t] = "active"
    /\ ~topen[t].writing
    /\ \E o \in {"ok", "mkdir_err", "open_err", "create_err"} :
          /\ o \in {"ok", "create_err"} => IsFile(SrcPath(t))
          /\ IF o = "ok"
             THEN /\ topen' = [topen EXCEPT ![t].opened = TRUE, ![t].writing = TRUE]
                  /\ UNCHANGED <<permits, tstate, terr, pbmsg>>
             ELSE /\ Finish(t, o, pbmsg[t])
                  /\ topen' = [topen EXCEPT ![t].opened = (o # "mkdir_err")]
    /\ UNCHANGED <<args, codecVars, mpc, backend, result, sshVars, scanVars, dirVars,
                   handles, joined>>

\* The rest of the local task: send_file writes the frame and returns, its
\* result dropped by `let _ =`; it ends the progress bar with "done" only on
\* success. The destination file is closed either way.
LocalTask(t) ==
    /\ backend = "local"
    /\ tstate[t] = "active"
    /\ topen[t].writing
    /\ \E err \in {"none", "io_err"} :
          Finish(t, err, IF err = "none" THEN "done" ELSE pbmsg[t])
    /\ topen' = [topen EXCEPT ![t].writing = FALSE]
    /\ UNCHANGED <<args, codecVars, mpc, backend, result, sshVars, scanVars, dirVars,
                   handles, joined>>

\* The SSH task's body: File::open, read_to_end, send_file_data.
SshErrs == {"none", "open_err", "read_err", "send_err"}

SshMsg(err) ==
    CASE err = "none" -> "done"
      [] err = "open_err" -> "failed to open"
      [] err = "read_err" -> "failed to read"
      [] OTHER -> "failed"

\* handle_ssh_transfer: `Path::new(&remote_path)`, the destination's part
\* after the ':'; SshTransfer.path holds the same string.
remote_root == parse_ssh_destination(args.destination).path_part

\* The remote_path the handler computes for an entry and hands to the task.
RemotePath(t) == Join(remote_root, EntryPath(t))

\* send_file_data's full_remote_path: self.path, a '/' unless it ends with
\* one, and the remote_path it was given.
full_remote_path(path, remote_path) ==
    IF path # <<>> /\ path[Len(path)] = "/" THEN path \o remote_path
    ELSE path \o <<"/">> \o remote_path

\* Step 2 of handle_ssh_transfer: the directory it creates for an entry,
\* `remote_root.join(&file.path).parent()`.
RemoteDir(t) == Parent(RemotePath(t))

\* The path the task's send_file_data call writes by SCP.
SentPath(t) == full_remote_path(remote_root, RemotePath(t))

SshTask(t) ==
    /\ backend = "ssh"
    /\ tstate[t] = "active"
    /\ \E err \in SshErrs :
          /\ err # "open_err" => IsFile(SrcPath(t))
          /\ Finish(t, err, SshMsg(err))
          /\ topen' = [topen EXCEPT ![t].opened = TRUE, ![t].sent = (err = "none")]
    /\ UNCHANGED <<args, codecVars, mpc, backend, result, sshVars, scanVars, dirVars,
                   handles, joined>>

\* AwaitHandle that drops the handle instead of awaiting it.
AwaitHandleDetached ==
    /\ mpc = "join"
    /\ joined < Len(handles)
    /\ joined' = joined + 1
    /\ UNCHANGED <<args, codecVars, mpc, backend, result, sshVars, scanVars, dirVars,
                   handles, permits, tstate, terr, pbmsg, topen>>

\* One turn of `for h in handles { let _ = h.await; }`.
AwaitHandle ==
    /\ mpc = "join"
    /\ joined < Len(handles)
    /\ tstate[handles[joined + 1]] \in Terminal
    /\ joined' = joined + 1
    /\ UNCHANGED <<args, codecVars, mpc, backend, result, sshVars, scanVars, dirVars,
                   handles, permits, tstate, terr, pbmsg, topen>>

\* println!("Transfer completed!") and Ok(()).
Return ==
    /\ mpc = "join"
    /\ joined = Len(handles)
    /\ mpc' = "returned"
    /\ result' = "Ok"
    /\ UNCHANGED <<args, codecVars, backend, sshVars, scanVars, dirVars, taskVars>>

Next ==
    \/ main
    \/ ParseDestination
    \/ SshConnect
    \/ AuthAgent
    \/ AuthPubkey
    \/ AuthPassword
    \/ AuthPrompt
    \/ SshNewReturn
    \/ CollectMetadata
    \/ CreateDestStructure
    \/ CreateRemoteStructure
    \/ StartTransfer
    \/ Spawn
    \/ \E t \in Files : Acquire(t)
    \/ \E t \in Files : LocalOpen(t)
    \/ \E t \in Files : LocalTask(t)
    \/ \E t \in Files : SshTask(t)
    \/ AwaitHandle
    \/ Return

Spec == Init /\ [][Next]_vars

\* The runtime keeps running whatever can run.
FairSpec == Spec /\ WF_vars(Next)

\* The runs of every list of source arguments.
PathInit ==
    /\ \E a \in [source : SourceLists, destination : Dests, compress : {FALSE},
                  jobs : 1..MaxJobs, ssh : BOOLEAN] : RunStart(a)
    /\ CodecIdle

PathSpec == PathInit /\ [][Next]_vars

\* ================================================================ send_file
\* The FileInfo collect_metadata pushes for a file: `compressed` comes from
\* should_compress(path) alone.
FileInfoOf(path, size, mtime) ==
    [path |-> path, size |-> size, mtime |-> mtime,
     compressed |-> should_compress(path)]

\* A local run's send_file call for one manifest entry. The file may have
\* changed since the scan: size is the length the scanner saw.
CodecInit ==
    /\ \E c \in BOOLEAN :
          RunStart([source |-> <<DirPA>>, destination |-> <<"d">>,
                    compress |-> c, jobs |-> 1, ssh |-> FALSE])
    /\ spc = "open"
    /\ src \in Sources
    /\ \E path \in Paths, size \in {Len(src), Len(src) + 1}, mtime \in {7, 12} :
          file_info = FileInfoOf(path, size, mtime)
    /\ rpos = 0
    /\ output = NewWriter
    /\ crc32_hasher = 0
    /\ sha256_hasher = 0
    /\ written = 0
    /\ pb = [position |-> 0, message |-> "path"]
    /\ payload = <<>>
    /\ send_result = "none"

\* send_file's `?`: the error is returned and `output` dropped on the way out.
SendErr(err, w, io) ==
    /\ send_result' = err
    /\ spc' = "returned"
    /\ output' = drop_writer(w, io)

\* fs::create_dir_all(..)?, File::open(&src_path)?, File::create(&dest_path)?.
SendOpen ==
    /\ spc = "open"
    /\ \E o \in {"ok", "mkdir_err", "open_err", "create_err"} :
          IF o = "ok"
          THEN /\ output' = NewWriter
               /\ spc' = "header"
               /\ send_result' = send_result
          ELSE SendErr(o, output, "ok")
    /\ UNCHANGED <<schedVars, file_info, src, rpos, crc32_hasher, sha256_hasher,
                   written, pb, payload>>

DataHeader(fi) ==
    [path |-> fi.path, size |-> fi.size, mtime |-> fi.mtime,
     compressed |-> fi.compressed]

\* The header: its length as four big-endian bytes, then its bytes.
WriteHeader ==
    /\ spc = "header"
    /\ \E io1 \in IOs, io2 \in IOs :
          LET header_bytes == HeaderBytes(DataHeader(file_info))
              w1 == write_all(output, BE32(Len(header_bytes)), io1)
              w2 == write_all(w1, header_bytes, io2)
          IN  IF ~w1.ok THEN SendErr("io_err", w1, "ok")
              ELSE IF ~w2.ok THEN SendErr("io_err", w2, "ok")
              ELSE /\ output' = w2
                   /\ spc' = "loop"
                   /\ send_result' = send_result
    /\ crc32_hasher' = 0
    /\ sha256_hasher' = 0
    /\ written' = 0
    /\ UNCHANGED <<schedVars, file_info, src, rpos, pb, payload>>

\* CopyChunk that folds the bytes it writes, not the bytes it read, into the
\* two checksums.
CopyChunkHashWritten ==
    /\ spc = "loop"
    /\ \E rd \in {"full", "short", "err"}, io \in IOs :
          LET left == Len(src) - rpos
              n == IF left = 0 THEN 0
                   ELSE IF rd = "short" THEN 1 ELSE Min(ChunkSize, left)
              data == SubSeq(src, rpos + 1, rpos + n)
              out == IF file_info.compressed THEN ZstdEncode(data) ELSE data
              w1 == write_all(output, out, io)
          IN  IF rd = "err"
              THEN /\ SendErr("read_err", output, io)
                   /\ UNCHANGED <<rpos, crc32_hasher, sha256_hasher, written, pb,
                                  payload>>
              ELSE IF n = 0
              THEN /\ spc' = "footer"
                   /\ UNCHANGED <<output, send_result, rpos, crc32_hasher,
                                  sha256_hasher, written, pb, payload>>
              ELSE /\ rpos' = rpos + n
                   /\ crc32_hasher' = CrcUpdate(crc32_hasher, out)
                   /\ sha256_hasher' = ShaUpdate(sha256_hasher, out)
                   /\ payload' = payload \o out
                   /\ IF ~w1.ok
                      THEN /\ SendErr("io_err", w1, "ok")
                           /\ UNCHANGED <<written, pb>>
                      ELSE /\ output' = w1
                           /\ written' = written + Len(out)
                           /\ pb' = [pb EXCEPT !.position = written']
                           /\ UNCHANGED <<spc, send_result>>
    /\ UNCHANGED <<schedVars, file_info, src>>

\* One turn of the copy loop: input.read(&mut buffer)? gives the rest of the
\* file up to the buffer's size, or fewer bytes (one, here), or an error; no
\* byte ends the loop.
CopyChunk ==
    /\ spc = "loop"
    /\ \E rd \in {"full", "short", "err"}, io \in IOs :
          LET left == Len(src) - rpos
              n == IF left = 0 THEN 0
                   ELSE IF rd = "short" THEN 1 ELSE Min(ChunkSize, left)
              data == SubSeq(src, rpos + 1, rpos + n)
              out == IF file_info.compressed THEN ZstdEncode(data) ELSE data
              w1 == write_all(output, out, io)
          IN  IF rd = "err"
              THEN /\ SendErr("read_err", output, io)
                   /\ UNCHANGED <<rpos, crc32_hasher, sha256_hasher, written, pb,
                                  payload>>
              ELSE IF n = 0
              THEN /\ spc' = "footer"
                   /\ UNCHANGED <<output, send_result, rpos, crc32_hasher,
                                  sha256_hasher, written, pb, payload>>
              ELSE /\ rpos' = rpos + n
                   /\ crc32_hasher' = CrcUpdate(crc32_hasher, data)
                   /\ sha256_hasher' = ShaUpdate(sha256_hasher, data)
                   /\ payload' = payload \o out
                   /\ IF ~w1.ok
                      THEN /\ SendErr("io_err", w1, "ok")
                           /\ UNCHANGED <<written, pb>>
                      ELSE /\ output' = w1
                           /\ written' = written + Len(out)
                           /\ pb' = [pb EXCEPT !.position = written']
                           /\ UNCHANGED <<spc, send_result>>
    /\ UNCHANGED <<schedVars, file_info, src>>

DataFooter == [crc32 |-> crc32_hasher, sha256 |-> sha256_hasher]

\* The footer: its length as four big-endian bytes, then its bytes.
WriteFooter ==
    /\ spc = "footer"
    /\ \E io1 \in IOs, io2 \in IOs :
          LET footer_bytes == FooterBytes(DataFooter)
              w1 == write_all(output, BE32(Len(footer_bytes)), io1)
              w2 == write_all(w1, footer_bytes, io2)
          IN  IF ~w1.ok THEN SendErr("io_err", w1, "ok")
              ELSE IF ~w2.ok THEN SendErr("io_err", w2, "ok")
              ELSE /\ output' = w2
                   /\ spc' = "finish"
                   /\ send_result' = send_result
    /\ UNCHANGED <<schedVars, file_info, src, rpos, crc32_hasher, sha256_hasher,
                   written, pb, payload>>

\* pb.finish_with_message("done"), Ok(()), and `output` dropped at the end of
\* the function: no flush() is called before.
SendReturn ==
    /\ spc = "finish"
    /\ pb' = [pb EXCEPT !.message = "done"]
    /\ send_result' = "Ok"
    /\ spc' = "returned"
    /\ \E io \in IOs : output' = drop_writer(output, io)
    /\ UNCHANGED <<schedVars, file_info, src, rpos, crc32_hasher, sha256_hasher,
                   written, payload>>

CodecNext ==
    \/ SendOpen
    \/ WriteHeader
    \/ CopyChunk
    \/ WriteFooter
    \/ SendReturn

CodecSpec == CodecInit /\ [][CodecNext]_vars

\* ------------------------------------------------------------- the decoder
\* A reader of a destination file that uses what the frame holds and nothing
\* else. The frame records no payload length that is sure to be right, so
\* the reader finds the footer from the end: the footer's bytes hold one '{',
\* their first, which is therefore the file's last.
NoDecode == [ok |-> FALSE, data |-> <<>>, crc32 |-> 0, sha256 |-> 0,
             compressed |-> FALSE]

\* The digits' number; -1 when a byte is no digit or there is none.
RECURSIVE ParseDigits(_, _)
ParseDigits(acc, bytes) ==
    IF bytes = <<>> THEN acc
    ELSE IF Head(bytes) \notin 48..57 THEN -1
    ELSE ParseDigits((IF acc < 0 THEN 0 ELSE acc) * 10 + Head(bytes) - 48,
                     Tail(bytes))

\* A payload of concatenated zstd frames, decoded frame by frame.
RECURSIVE ZstdDecodeAll(_)
ZstdDecodeAll(p) ==
    IF p = <<>> THEN [ok |-> TRUE, data |-> <<>>]
    ELSE IF Len(p) < 2 \/ p[1] # ZMagic THEN [ok |-> FALSE, data |-> <<>>]
    ELSE IF Len(p) < 2 + p[2] THEN [ok |-> FALSE, data |-> <<>>]
    ELSE LET rest == ZstdDecodeAll(SubSeq(p, 3 + p[2], Len(p)))
             body == [i \in 1..p[2] |-> (p[2 + i] + 255) % 256]
         IN  [ok |-> rest.ok, data |-> body \o rest.data]

DecodeFrame(file) ==
    IF Len(file) < 4 THEN NoDecode
    ELSE
    LET hlen == FromBE32(SubSeq(file, 1, 4))
        fpos == LastIndexOf(file, 123)
    IN  IF \/ hlen < 3
           \/ Len(file) < 4 + hlen
           \/ file[5] # 123
           \/ file[4 + hlen] # 125
           \/ file[3 + hlen] \notin {116, 102}
           \/ fpos < hlen + 9
        THEN NoDecode
        ELSE
        LET compressed == file[3 + hlen] = 116
            fbody == SubSeq(file, fpos + 1, Len(file) - 1)
            comma == Find(fbody, 44)
            raw == SubSeq(file, 5 + hlen, fpos - 5)
            dec == IF compressed THEN ZstdDecodeAll(raw)
                   ELSE [ok |-> TRUE, data |-> raw]
        IN  IF \/ FromBE32(SubSeq(file, fpos - 4, fpos - 1)) # Len(file) - fpos + 1
               \/ file[Len(file)] # 125
               \/ comma = 0
               \/ ~dec.ok
            THEN NoDecode
            ELSE [ok |-> TRUE, data |-> dec.data,
                  crc32 |-> ParseDigits(-1, SubSeq(fbody, 1, comma - 1)),
                  sha256 |-> ParseDigits(-1, SubSeq(fbody, comma + 1, Len(fbody))),
                  compressed |-> compressed]

\* ================================================================== claims

ActiveTasks == {t \in Files : tstate[t] = "active"}
QueuedTasks == {t \in Files : tstate[t] = "queued"}
FailedTasks == {t \in Files : tstate[t] = "failed"}
ManifestSet == {manifest[i] : i \in 1..Len(manifest)}

\* C1: in both handlers, at no moment do more tasks hold a permit (are between
\* acquiring it and terminating) than the concurrency value --jobs.
C1_ConcurrencyBound ==
    Cardinality(ActiveTasks) <= args.jobs

\* C1's case: a manifest larger than --jobs, every slot taken, a task waiting.
C1_Witness ==
    /\ args.jobs >= 1
    /\ Cardinality(ActiveTasks) = args.jobs
    /\ QueuedTasks # {}

\* C2: the run has returned only if no task is still queued or in flight, and
\* it has returned Ok only once every manifest entry's task is terminal.
C2_ReturnAfterAllTerminal ==
    mpc = "returned" =>
        /\ ActiveTasks = {} /\ QueuedTasks = {}
        /\ result = "Ok" => \A t \in ManifestSet : tstate[t] \in Terminal

\* C2's case: a run of several tasks, failed and succeeded, has returned.
C2_Witness ==
    /\ mpc = "returned"
    /\ result = "Ok"
    /\ Len(handles) >= 2
    /\ \E t, u \in ManifestSet : tstate[t] = "failed" /\ tstate[u] = "succeeded"

\* A step in which task t ends with an error changes no other task and
\* neither main's position nor its result, and gives t's permit back.
FailureIsolated ==
    \A t \in Files :
        (tstate[t] = "active" /\ tstate'[t] = "failed") =>
            /\ \A u \in Files \ {t} :
                  tstate'[u] = tstate[u] /\ terr'[u] = terr[u] /\ pbmsg'[u] = pbmsg[u]
            /\ mpc' = mpc
            /\ result' = result
            /\ permits' = permits + 1

\* C3: an I/O error inside one task ends that task only: the step changes no
\* sibling and not the run, every sibling is still admitted and reaches its
\* own terminal state, and the run returns Ok.
C3_FailureEndsOnlyThatTask ==
    /\ [][FailureIsolated]_vars
    /\ (FailedTasks # {}) ~>
          (/\ mpc = "returned"
           /\ result = "Ok"
           /\ \A t \in ManifestSet : tstate[t] \in Terminal)

\* C3's case: with one slot, a task failed and a sibling was admitted after it.
C3_Witness ==
    /\ args.jobs = 1
    /\ \E t, u \in Files : tstate[t] = "failed" /\ tstate[u] = "active"

\* What the run shows of a task's outcome: the progress bar's last message.
FailureMsgs == {"failed", "failed to open", "failed to read"}

\* C4: when a run returns, every failed task is shown as a failure and every
\* succeeded task as a success.
C4_ReportHoldsEveryOutcome ==
    (mpc = "returned" /\ result = "Ok") =>
        \A t \in ManifestSet :
            /\ tstate[t] = "failed" => pbmsg[t] \in FailureMsgs
            /\ tstate[t] = "succeeded" => pbmsg[t] = "done"

\* C5: a file the scanner cannot stat, open or read is skipped: the scan does
\* not abort the run and the manifest holds every file it could read.
C5_ScanSkipsUnreadable ==
    (\E f \in Files : scan[f] # "none") =>
        /\ result # "ScanError"
        /\ manifest = SelectSeq([i \in 1..MaxFiles |-> i], LAMBDA f : scan[f] = "ok")

\* C6: on the remote path a directory is created or a task spawned only with
\* an authenticated session in hand, and a run that ended on a connection or
\* authentication error created and spawned nothing.
C6_RemoteOpsNeedAuth ==
    backend = "ssh" =>
        /\ (rdirs # {} \/ handles # <<>> \/ \E t \in Files : tstate[t] # "none") =>
              (session.connected /\ session.authenticated /\ session.held)
        /\ result \in {"ConnectError", "AuthError", "IoError"} =>
              (rdirs = {} /\ handles = <<>> /\ \A t \in Files : tstate[t] = "none")

\* C6's case: all four methods failed and the run ended with the error.
C6_Witness ==
    /\ result = "AuthError"
    /\ Len(attempts) = 4

\* The priority of an authentication method.
Rank(m) ==
    CASE m = "agent" -> 1
      [] m = "pubkey" -> 2
      [] m = "password_env" -> 3
      [] m = "prompt" -> 4

\* C7: the methods are tried in the order agent, key pair, environment
\* password, prompt, each at most once; every attempt before the last one
\* failed, so nothing is tried after a success; the agent comes first.
C7_AuthOrder ==
    /\ \A i, j \in 1..Len(attempts) :
          i < j => Rank(attempts[i].method) < Rank(attempts[j].method)
    /\ \A i \in 1..Len(attempts) : attempts[i].ok => i = Len(attempts)
    /\ attempts # <<>> => attempts[1].method = "agent"
    /\ auth_success = (\E i \in 1..Len(attempts) : attempts[i].ok)

\* C7's case: the agent failed, the key pair succeeded, and new is past the
\* password and the prompt without another attempt.
C7_Witness ==
    /\ mpc = "authcheck"
    /\ Len(attempts) = 2
    /\ attempts[2].method = "pubkey"
    /\ attempts[2].ok

\* The frame send_file set out to write: both length prefixes, the header, the
\* payload handed to the writer, the footer.
FrameOf(fi, pl, footer) ==
    BE32(Len(HeaderBytes(DataHeader(fi)))) \o HeaderBytes(DataHeader(fi)) \o pl
        \o BE32(Len(FooterBytes(footer))) \o FooterBytes(footer)

\* C8: for any source bytes and either value of the flag, decoding what a
\* successful send_file wrote gives back the source bytes, and the checksums
\* recomputed over them are the footer's.
C8_RoundTrip ==
    send_result = "Ok" =>
        LET d == DecodeFrame(output.file)
        IN  /\ d.ok
            /\ d.data = src
            /\ d.compressed = file_info.compressed
            /\ CrcUpdate(0, d.data) = d.crc32
            /\ ShaUpdate(0, d.data) = d.sha256

\* C9: after a successful send_file the destination holds, in this order and
\* nothing else, the header's length, the header, the payload chunks in
\* source order, the footer's length, the footer.
C9_FrameLayout ==
    send_result = "Ok" =>
        /\ output.file = FrameOf(file_info, payload, DataFooter)
        /\ ~file_info.compressed => payload = src

\* An '@' followed later by a ':'.
HasAtThenColon(d) ==
    \E i, j \in 1..Len(d) : i < j /\ d[i] = "@" /\ d[j] = ":"

\* C10: the destination string alone selects the backend, remote exactly when
\* it holds an '@' followed later by a ':'; and a remote destination without
\* user@ is connected to as the invoking user.
C10_BackendFromDestination ==
    /\ backend # "none" =>
          (backend = "ssh" <=> HasAtThenColon(args.destination))
    /\ (backend = "ssh" /\ Count(args.destination, "@") = 0) =>
          result # "InvalidDestination"

\* C12: a file's payload is compressed only when the compress option was given
\* and its extension is in the allow-list; without the option every payload
\* is written verbatim and every header has compressed = false.
C12_CompressOptionGates ==
    spc \in {"loop", "footer", "finish"} =>
        /\ file_info.compressed =
              (args.compress /\ should_compress(file_info.path))
        /\ ~args.compress => payload = SubSeq(src, 1, rpos)

\* C14: for either value of the flag, the two accumulators are at every moment
\* the checksums of the raw bytes read so far, each chunk folded once; once
\* the loop is over these are all the source's bytes, the footer holds their
\* checksums, and so does the footer of a frame that reached the file.
C14_FooterOverRawBytes ==
    /\ crc32_hasher = CrcUpdate(0, SubSeq(src, 1, rpos))
    /\ sha256_hasher = ShaUpdate(0, SubSeq(src, 1, rpos))
    /\ (spc \in {"footer", "finish"} \/ send_result = "Ok") =>
          /\ rpos = Len(src)
          /\ DataFooter = [crc32 |-> CrcUpdate(0, src), sha256 |-> ShaUpdate(0, src)]
    /\ (send_result = "Ok" /\ DecodeFrame(output.file).ok) =>
          /\ DecodeFrame(output.file).crc32 = CrcUpdate(0, src)
          /\ DecodeFrame(output.file).sha256 = ShaUpdate(0, src)

\* C14's case: a compressed transfer of more than one chunk has completed and
\* its frame, footer included, is in the file.
C14_Witness ==
    /\ send_result = "Ok"
    /\ file_info.compressed
    /\ Len(src) > ChunkSize
    /\ payload # src
    /\ DecodeFrame(output.file).ok

\* C20: send_file has returned Ok and marked the progress bar done only if the
\* destination file holds every byte of the frame, footer included.
C20_OkOnlyIfFrameWritten ==
    (send_result = "Ok" /\ pb.message = "done") =>
        Len(output.file) =
            4 + Len(HeaderBytes(DataHeader(file_info))) + written
              + 4 + Len(FooterBytes(DataFooter))

\* The transfer step has made its semaphore.
Started == mpc \in {"spawn", "join"} \/ (mpc = "returned" /\ result = "Ok")

\* C13: every task that acquired a slot gives it back when it ends, whatever
\* ended it: the free slots and the tasks in flight always add up to the
\* concurrency, so once every task is terminal all slots are free again.
C13_SlotsReleased ==
    Started =>
        /\ permits + Cardinality(ActiveTasks) = args.jobs
        /\ (handles # <<>> /\ \A i \in 1..Len(handles) : tstate[handles[i]] \in Terminal)
              => permits = args.jobs

\* C13's case: an SSH run whose tasks ended on a failed open, a failed read,
\* and a success has returned.
C13_Witness ==
    /\ mpc = "returned"
    /\ result = "Ok"
    /\ backend = "ssh"
    /\ args.jobs >= 1
    /\ \E t, u, v \in ManifestSet :
          terr[t] = "open_err" /\ terr[u] = "read_err" /\ tstate[v] = "succeeded"

\* A task has acquired its slot.
Admitted(t) == tstate[t] \in {"active", "succeeded", "failed"}

\* C15 as stated: for entries i before j, the task of i acquires its slot no
\* later than the task of j.
C15_AcquireInManifestOrder ==
    \A i, j \in 1..Len(manifest) :
        (i < j /\ Admitted(manifest[j])) => Admitted(manifest[i])

\* C15, amended: tasks are spawned in manifest order, the handles being a
\* prefix of the manifest at every moment.
C15_SpawnInManifestOrder ==
    /\ Len(handles) <= Len(manifest)
    /\ handles = SubSeq(manifest, 1, Len(handles))
    /\ \A t \in Files : tstate[t] # "none" => \E i \in 1..Len(handles) : handles[i] = t

\* C15's case: all tasks spawned, a later entry's task in flight while an
\* earlier one's still waits.
C15_Witness ==
    /\ Len(handles) >= 2
    /\ \E i, j \in 1..Len(handles) :
          i < j /\ tstate[handles[i]] = "queued" /\ Admitted(handles[j])

\* C16: for every value of --jobs, 0 included, and every manifest, the run
\* eventually returns.
C16_RunReturns == <>(mpc = "returned")

\* C11: for every list of source roots the manifest holds exactly one entry
\* per regular file the walks reach, and no two entries have the same
\* relative path.
C11_ManifestOneEntryPerFile ==
    /\ \A i, j \in 1..Len(manifest) :
          i # j => /\ EntryPath(manifest[i]) # EntryPath(manifest[j])
                   /\ Scanned(manifest[i]) # Scanned(manifest[j])
    /\ mpc \in {"mkdir", "start", "spawn", "join"} =>
          \A f \in 1..Len(walked) : scan[f] = "ok" => f \in ManifestSet

\* C17: in a local run no two tasks have the same destination path open for
\* writing at the same time.
C17_OneWriterPerDestination ==
    backend = "local" =>
        \A t, u \in Files :
            (t # u /\ topen[t].writing /\ topen[u].writing) =>
                DestPath(t) # DestPath(u)

\* C18: the source path a task opens, the source root joined with the entry's
\* relative path, is the file the scanner statted and read for that entry.
C18_TaskOpensScannedFile ==
    \A t \in Files : topen[t].opened => SrcPath(t) = Scanned(t)

\* C19: in a remote run a file is written at the remote root joined once with
\* the entry's relative path, and its parent is the directory step 2 created
\* for the entry.
C19_RemotePathJoinedOnce ==
    backend = "ssh" =>
        \A t \in Files :
            topen[t].sent =>
                /\ SentPath(t) = Join(remote_root, EntryPath(t))
                /\ Parent(SentPath(t)) = RemoteDir(t)

====
